---- MODULE Spec2Model ----
(***************************************************************************)
(* Model of the two browser scripts of rocm_blogs/static/js:               *)
(*   image-loading.js  the lazy-image 'loading' class controller           *)
(*   performance.js    the metrics logger and deferred script loader       *)
(* The browser is the environment: it delivers DOMContentLoaded, timer,    *)
(* idle, intersection and load callbacks one at a time (one event loop).   *)
(***************************************************************************)
EXTENDS Integers, Sequences, FiniteSets, TLC

\* Number of image elements of the page in the full controller specification.
NumImgs == 2

\* Number of image elements of the page in the specification with fairness.
NumLiveImgs == 1

\* Number of image elements of the page in the scan specification.
NumScanImgs == 3

\* Largest number of script elements in the document.
MaxScripts == 2

\* Largest navigationStart timestamp and largest load duration of the timing record.
MaxNav == 2
MaxLoad == 1

\* Number of invocations of handleImageLoading the handler arranges
\* (image-loading.js line 60 and line 63).
NumRuns == 2

\* Largest number of pending closures (load listeners, timers) of one run
\* on one image that the model tracks.
MaxPending == 2

Runs == 1..NumRuns

VARIABLES
    imgPc,      \* position of image-loading.js: "unloaded", "start", "waiting", "done", "aborted"
    hasIO,      \* the runtime defines IntersectionObserver
    doc,        \* doc[i]: "no" while image i is outside the document, else the phase it entered in
    lazy,       \* lazy[i]: image i matches 'img[loading="lazy"], .sd-card-img-top'
    complete,   \* complete[i]: the image's native complete flag
    loading,    \* loading[i]: classList of image i contains 'loading'
    observed,   \* observed[r][i]: i is an observation target of run r's imageObserver
    listeners,  \* listeners[r][i]: handleLoad closures of run r attached to i's load event
    timers,     \* timers[r][i]: pending 50ms timers started by run r's handleLoad for i
    handled,    \* handled[r][i]: intersecting entries for i processed by run r's callback
    runs,       \* number of invocations of handleImageLoading so far
    perfPc,     \* position of performance.js: "unloaded", "start", "ran", "aborted"
    perfApi,    \* window.performance: "absent", "noTiming" (no timing record), "timing"
    timing,     \* the record window.performance.timing
    hasIdle,    \* the runtime defines requestIdleCallback
    idleQueued, \* requestIdleCallback(loadScriptsAsync) is pending
    timerQueued,\* setTimeout(loadScriptsAsync, 1000) is pending
    console,    \* the values written by console.log, in order
    scrollListeners, \* number of scroll listeners registered on window
    scripts,    \* the script elements of the document, in document order
    scripts0,   \* the script elements of the document as parsed
    nextId,     \* identity of the next element document.createElement returns
    activations \* the callbacks that invoked loadScriptsAsync, in order

imgVars == <<imgPc, hasIO, doc, lazy, complete, loading, observed, listeners,
             timers, handled, runs>>

perfVars == <<perfPc, perfApi, timing, hasIdle, idleQueued, timerQueued, console,
              scrollListeners, scripts, scripts0, nextId, activations>>

vars == <<imgPc, hasIO, doc, lazy, complete, loading, observed, listeners,
          timers, handled, runs, perfPc, perfApi, timing, hasIdle, idleQueued,
          timerQueued, console, scrollListeners, scripts, scripts0, nextId,
          activations>>

(***************************************************************************)
(* image-loading.js                                                        *)
(***************************************************************************)

\* The image elements of the page.
Imgs == DOMAIN doc

InDoc(i) == doc[i] # "no"

\* document.querySelectorAll('img[loading="lazy"], .sd-card-img-top')
lazyImages == {i \in Imgs : InDoc(i) /\ lazy[i]}

\* Mutant: the marking loop without its test of img.complete.
MarkLoading_NoCompleteTest == [i \in Imgs |-> loading[i] \/ i \in lazyImages]

\* lazyImages.forEach(img => { if (!img.complete) img.classList.add('loading') })
MarkLoading == [i \in Imgs |-> loading[i] \/ (i \in lazyImages /\ ~complete[i])]

\* lazyImages.forEach(img => imageObserver.observe(img)) on a fresh observer
ObserveAll(r) == [observed EXCEPT ![r] = [i \in Imgs |-> i \in lazyImages]]

\* handleImageLoading, invocation r. new IntersectionObserver throws a
\* ReferenceError when the capability is absent: the marking loop has run,
\* nothing after it does.
handleImageLoading(r) ==
    /\ loading' = MarkLoading
    /\ observed' = IF hasIO THEN ObserveAll(r) ELSE observed
    /\ runs' = runs + 1

\* Mutant: the first run's exception is swallowed and the timer still set.
DOMContentLoaded_CatchAndSchedule ==
    /\ imgPc = "start"
    /\ handleImageLoading(1)
    /\ imgPc' = "waiting"
    /\ UNCHANGED <<hasIO, doc, lazy, complete, listeners, timers, handled, perfVars>>

\* The DOMContentLoaded listener: first run, then setTimeout(handleImageLoading, 500).
\* An exception of the first run leaves the listener before the timer is set.
DOMContentLoaded ==
    /\ imgPc = "start"
    /\ handleImageLoading(1)
    /\ imgPc' = IF hasIO THEN "waiting" ELSE "aborted"
    /\ UNCHANGED <<hasIO, doc, lazy, complete, listeners, timers, handled, perfVars>>

\* Mutant: the 500ms timer fires but the second run is not made.
RescanTimer_NoRun ==
    /\ imgPc = "waiting"
    /\ imgPc' = "done"
    /\ UNCHANGED <<hasIO, doc, lazy, complete, loading, observed, listeners,
                   timers, handled, runs, perfVars>>

\* Mutant: setInterval in place of setTimeout, the run repeats every 500ms.
RescanTimer_Interval ==
    /\ imgPc = "waiting"
    /\ handleImageLoading(2)
    /\ imgPc' = "waiting"
    /\ UNCHANGED <<hasIO, doc, lazy, complete, listeners, timers, handled, perfVars>>

\* The 500ms timer fires: second run.
RescanTimer ==
    /\ imgPc = "waiting"
    /\ handleImageLoading(2)
    /\ imgPc' = "done"
    /\ UNCHANGED <<hasIO, doc, lazy, complete, listeners, timers, handled, perfVars>>

\* img.classList.remove('loading')
ClassListRemove(i) == [loading EXCEPT ![i] = FALSE]

\* img.addEventListener('load', handleLoad) with run r's fresh closure
AddLoadListener(r, i) == [listeners EXCEPT ![r][i] = @ + 1]

\* Mutant: the callback never stops observing.
Unobserve_Missing(r, i) == observed

\* observer.unobserve(img)
Unobserve(r, i) == [observed EXCEPT ![r][i] = FALSE]

\* Mutant: the load handler is attached whether or not the image is complete.
EntryListeners_Always(r, i) == AddLoadListener(r, i)

\* if (img.complete) ... else img.addEventListener('load', handleLoad)
EntryListeners(r, i) == IF complete[i] THEN listeners ELSE AddLoadListener(r, i)

\* if (img.complete) img.classList.remove('loading') else ...
EntryLoading(i) == IF complete[i] THEN ClassListRemove(i) ELSE loading

\* The callback of run r's imageObserver for one entry.
IntersectionCallback(r, i, isIntersecting) ==
    /\ observed[r][i]
    /\ listeners[r][i] < MaxPending
    /\ handled[r][i] < MaxPending
    /\ IF isIntersecting
       THEN /\ loading' = EntryLoading(i)
            /\ listeners' = EntryListeners(r, i)
            /\ observed' = Unobserve(r, i)
            /\ handled' = [handled EXCEPT ![r][i] = @ + 1]
       ELSE UNCHANGED <<loading, listeners, observed, handled>>
    /\ UNCHANGED <<imgPc, hasIO, doc, lazy, complete, timers, runs, perfVars>>

\* handleLoad: setTimeout(() => img.classList.remove('loading'), 50), once
\* for each closure attached to image i.
HandleLoadSetTimeout(i) ==
    [r \in Runs |-> [timers[r] EXCEPT ![i] = @ + listeners[r][i]]]

\* Mutant: handleLoad does not detach itself.
HandleLoadDetach_Missing(i) == listeners

\* handleLoad: img.removeEventListener('load', handleLoad)
HandleLoadDetach(i) == [r \in Runs |-> [listeners[r] EXCEPT ![i] = 0]]

\* The image finishes loading: complete turns true and the load event runs
\* every attached handleLoad.
LoadEvent(i) ==
    /\ InDoc(i)
    /\ ~complete[i]
    /\ \A r \in Runs : timers[r][i] + listeners[r][i] <= MaxPending
    /\ complete' = [complete EXCEPT ![i] = TRUE]
    /\ timers' = HandleLoadSetTimeout(i)
    /\ listeners' = HandleLoadDetach(i)
    /\ UNCHANGED <<imgPc, hasIO, doc, lazy, loading, observed, handled, runs, perfVars>>

\* The image fails to load: complete turns true, no load event is fired.
ErrorEvent(i) ==
    /\ InDoc(i)
    /\ ~complete[i]
    /\ complete' = [complete EXCEPT ![i] = TRUE]
    /\ UNCHANGED <<imgPc, hasIO, doc, lazy, loading, observed, listeners,
                   timers, handled, runs, perfVars>>

\* Page logic assigns a new src: the image is incomplete again.
SrcChange(i) ==
    /\ InDoc(i)
    /\ complete[i]
    /\ complete' = [complete EXCEPT ![i] = FALSE]
    /\ UNCHANGED <<imgPc, hasIO, doc, lazy, loading, observed, listeners,
                   timers, handled, runs, perfVars>>

\* Mutant: the timer's callback leaves the class in place.
RemoveTimer_KeepClass(r, i) ==
    /\ timers[r][i] > 0
    /\ timers' = [timers EXCEPT ![r][i] = @ - 1]
    /\ UNCHANGED <<imgPc, hasIO, doc, lazy, complete, loading, observed, listeners,
                   handled, runs, perfVars>>

\* Mutant: the timer's callback calls classList.toggle('loading').
RemoveTimer_Toggle(r, i) ==
    /\ timers[r][i] > 0
    /\ timers' = [timers EXCEPT ![r][i] = @ - 1]
    /\ loading' = [loading EXCEPT ![i] = ~@]
    /\ UNCHANGED <<imgPc, hasIO, doc, lazy, complete, observed, listeners,
                   handled, runs, perfVars>>

\* A 50ms timer of run r's handleLoad fires: img.classList.remove('loading').
RemoveTimer(r, i) ==
    /\ timers[r][i] > 0
    /\ timers' = [timers EXCEPT ![r][i] = @ - 1]
    /\ loading' = ClassListRemove(i)
    /\ UNCHANGED <<imgPc, hasIO, doc, lazy, complete, observed, listeners,
                   handled, runs, perfVars>>

\* Page logic inserts image i into the document after DOMContentLoaded.
InsertImage(i, c) ==
    /\ imgPc \in {"waiting", "done", "aborted"}
    /\ doc[i] = "no"
    /\ doc' = [doc EXCEPT ![i] = imgPc]
    /\ complete' = [complete EXCEPT ![i] = c]
    /\ UNCHANGED <<imgPc, hasIO, lazy, loading, observed, listeners, timers,
                   handled, runs, perfVars>>

\* The state of a page of n image elements when image-loading.js is loaded.
ImgStart(n) ==
    /\ imgPc = "start"
    /\ hasIO \in BOOLEAN
    /\ doc \in [1..n -> {"no", "markup"}]
    /\ lazy \in [1..n -> BOOLEAN]
    /\ complete \in [1..n -> BOOLEAN]
    /\ \A i \in 1..n : doc[i] = "no" => ~complete[i]
    /\ loading = [i \in 1..n |-> FALSE]
    /\ observed = [r \in Runs |-> [i \in 1..n |-> FALSE]]
    /\ listeners = [r \in Runs |-> [i \in 1..n |-> 0]]
    /\ timers = [r \in Runs |-> [i \in 1..n |-> 0]]
    /\ handled = [r \in Runs |-> [i \in 1..n |-> 0]]
    /\ runs = 0

\* A page that does not include image-loading.js.
ImgUnloaded ==
    /\ imgPc = "unloaded"
    /\ hasIO = TRUE
    /\ doc = << >>
    /\ lazy = << >>
    /\ complete = << >>
    /\ loading = << >>
    /\ observed = [r \in Runs |-> << >>]
    /\ listeners = [r \in Runs |-> << >>]
    /\ timers = [r \in Runs |-> << >>]
    /\ handled = [r \in Runs |-> << >>]
    /\ runs = 0

(***************************************************************************)
(* performance.js                                                          *)
(***************************************************************************)

AttrNames == {"defer-load", "src", "data-x"}

\* The values an attribute of a parsed script element may carry.
AttrValues(name) ==
    CASE name = "defer-load" -> {""}
      [] name = "src" -> {"a.js"}
      [] name = "data-x" -> {"1"}

\* Attribute maps: a function from the names present to their values.
AttrMaps ==
    UNION {{f \in [S -> {"", "a.js", "1"}] : \A n \in S : f[n] \in AttrValues(n)}
           : S \in SUBSET AttrNames}

Texts == {"", "init()"}

\* The src property of a script element: the src attribute resolved against
\* the document's URL, or "" when the attribute is absent.
SrcProperty(attrs) ==
    IF "src" \in DOMAIN attrs
    THEN (CASE attrs["src"] = "a.js" -> "https://host/blog/a.js"
            [] OTHER -> attrs["src"])
    ELSE ""

\* element.setAttribute(name, value)
SetAttribute(attrs, name, value) ==
    [n \in DOMAIN attrs \cup {name} |-> IF n = name THEN value ELSE attrs[n]]

\* Mutant: the copy loop without its test of the attribute's name.
RECURSIVE CopyAttributes_All(_, _, _)
CopyAttributes_All(dst, src, names) ==
    IF names = {}
    THEN dst
    ELSE LET n == CHOOSE x \in names : TRUE
         IN CopyAttributes_All(SetAttribute(dst, n, src[n]), src, names \ {n})

\* Array.from(script.attributes).forEach(attr => ...): copy every attribute
\* of names but 'defer-load' from src to dst.
RECURSIVE CopyAttributes(_, _, _)
CopyAttributes(dst, src, names) ==
    IF names = {}
    THEN dst
    ELSE LET n == CHOOSE x \in names : TRUE
             d == IF n # "defer-load" THEN SetAttribute(dst, n, src[n]) ELSE dst
         IN CopyAttributes(d, src, names \ {n})

\* The body of scripts.forEach for one script: the element that replaces it.
NewScript(script, id) ==
    LET created == [id |-> id, attrs |-> << >>, text |-> ""]
        sourced == IF SrcProperty(script.attrs) # ""
                   THEN [created EXCEPT !.attrs = SetAttribute(@, "src", SrcProperty(script.attrs))]
                   ELSE [created EXCEPT !.text = script.text]
    IN [sourced EXCEPT !.attrs = CopyAttributes(@, script.attrs, DOMAIN script.attrs)]

\* Mutant: the selector is 'script', every script element matches.
DeferredIndexes_AllScripts(d) == 1..Len(d)

\* document.querySelectorAll('script[defer-load]'): positions of the matches.
DeferredIndexes(d) == {k \in 1..Len(d) : "defer-load" \in DOMAIN d[k].attrs}

\* Mutant: the original is removed and the new element appended at the end.
ReplaceChild_Append(d, new, old) ==
    LET keep == {k \in 1..Len(d) : d[k].id # old.id}
        before(k) == Cardinality({j \in keep : j < k})
        rest == [n \in 1..Cardinality(keep) |->
                   d[CHOOSE k \in keep : before(k) = n - 1]]
    IN Append(rest, new)

\* script.parentNode.replaceChild(newScript, script)
ReplaceChild(d, new, old) ==
    [k \in 1..Len(d) |-> IF d[k].id = old.id THEN new ELSE d[k]]

\* scripts.forEach over the static list taken from document d, in document order.
RECURSIVE ForEachScript(_, _, _)
ForEachScript(d, list, id) ==
    IF list = << >>
    THEN d
    ELSE ForEachScript(ReplaceChild(d, NewScript(Head(list), id), Head(list)),
                       Tail(list), id + 1)

\* The static NodeList of document d, in document order.
RECURSIVE NodeList(_, _)
NodeList(d, k) ==
    IF k > Len(d)
    THEN << >>
    ELSE IF k \in DeferredIndexes(d)
         THEN <<d[k]>> \o NodeList(d, k + 1)
         ELSE NodeList(d, k + 1)

\* loadScriptsAsync, invoked by callback `by`.
loadScriptsAsync(by) ==
    /\ scripts' = ForEachScript(scripts, NodeList(scripts, 1), nextId)
    /\ nextId' = nextId + Cardinality(DeferredIndexes(scripts))
    /\ activations' = Append(activations, by)

\* The DOMContentLoaded listener of performance.js.
\* Reading perfData.loadEventEnd of an undefined timing record throws a
\* TypeError, which leaves the listener.
PerfDOMContentLoaded ==
    /\ perfPc = "start"
    /\ IF perfApi = "noTiming"
       THEN /\ perfPc' = "aborted"
            /\ UNCHANGED <<console, idleQueued, timerQueued, scrollListeners>>
       ELSE /\ console' = IF perfApi = "timing"
                          THEN Append(console, timing.loadEventEnd - timing.navigationStart)
                          ELSE console
            /\ idleQueued' = hasIdle
            /\ timerQueued' = ~hasIdle
            /\ scrollListeners' = scrollListeners + 1
            /\ perfPc' = "ran"
    /\ UNCHANGED <<perfApi, timing, hasIdle, scripts, scripts0, nextId, activations, imgVars>>

\* The runtime runs the idle callback.
IdleCallback ==
    /\ idleQueued
    /\ loadScriptsAsync("idle")
    /\ idleQueued' = FALSE
    /\ UNCHANGED <<perfPc, perfApi, timing, hasIdle, timerQueued, console,
                   scrollListeners, scripts0, imgVars>>

\* The 1000ms timer fires.
FallbackTimer ==
    /\ timerQueued
    /\ loadScriptsAsync("timer")
    /\ timerQueued' = FALSE
    /\ UNCHANGED <<perfPc, perfApi, timing, hasIdle, idleQueued, console,
                   scrollListeners, scripts0, imgVars>>

\* The window's load event ends, after DOMContentLoaded: the runtime records
\* loadEventEnd.
WindowLoad(d) ==
    /\ perfPc \in {"ran", "aborted"}
    /\ perfApi = "timing"
    /\ timing.loadEventEnd = 0
    /\ timing' = [timing EXCEPT !.loadEventEnd = timing.navigationStart + d]
    /\ UNCHANGED <<perfPc, perfApi, hasIdle, idleQueued, timerQueued, console,
                   scrollListeners, scripts, scripts0, nextId, activations, imgVars>>

\* Script elements as parsed: identities are the document positions.
ScriptLists ==
    UNION {{s \in [1..n -> [id : 1..n, attrs : AttrMaps, text : Texts]] :
              \A k \in 1..n : s[k].id = k}
           : n \in 0..MaxScripts}

\* The state of a page when performance.js is loaded.
PerfStart ==
    /\ perfPc = "start"
    /\ perfApi \in {"absent", "noTiming", "timing"}
    /\ timing \in [navigationStart : 1..MaxNav, loadEventEnd : {0}]
    /\ perfApi # "timing" => timing.navigationStart = 1
    /\ hasIdle \in BOOLEAN
    /\ idleQueued = FALSE
    /\ timerQueued = FALSE
    /\ console = << >>
    /\ scrollListeners = 0
    /\ scripts \in ScriptLists
    /\ scripts0 = scripts
    /\ nextId = MaxScripts + 1
    /\ activations = << >>

\* A page that does not include performance.js.
PerfUnloaded ==
    /\ perfPc = "unloaded"
    /\ perfApi = "absent"
    /\ timing = [navigationStart |-> 1, loadEventEnd |-> 0]
    /\ hasIdle = FALSE
    /\ idleQueued = FALSE
    /\ timerQueued = FALSE
    /\ console = << >>
    /\ scrollListeners = 0
    /\ scripts = << >>
    /\ scripts0 = << >>
    /\ nextId = MaxScripts + 1
    /\ activations = << >>

(***************************************************************************)
(* Specifications                                                          *)
(***************************************************************************)

\* image-loading.js on a page of NumImgs images.
InitImg == ImgStart(NumImgs) /\ PerfUnloaded

NextImg ==
    \/ DOMContentLoaded
    \/ RescanTimer
    \/ \E r \in Runs, i \in Imgs, b \in BOOLEAN : IntersectionCallback(r, i, b)
    \/ \E i \in Imgs : LoadEvent(i)
    \/ \E i \in Imgs : ErrorEvent(i)
    \/ \E i \in Imgs : SrcChange(i)
    \/ \E r \in Runs, i \in Imgs : RemoveTimer(r, i)
    \/ \E i \in Imgs, c \in BOOLEAN : InsertImage(i, c)

SpecImg == InitImg /\ [][NextImg]_vars

\* Timers the runtime has accepted do fire.
FairImg ==
    /\ WF_vars(RescanTimer)
    /\ \A r \in Runs, i \in 1..NumLiveImgs : WF_vars(RemoveTimer(r, i))

\* image-loading.js on a page of NumLiveImgs images, with fair timers.
InitLive == ImgStart(NumLiveImgs) /\ PerfUnloaded

LiveImg == InitLive /\ [][NextImg]_vars /\ FairImg

\* image-loading.js on a page of NumScanImgs images no intersection is
\* delivered for: the scans and the images' own events.
InitScan == ImgStart(NumScanImgs) /\ PerfUnloaded

NextScan ==
    \/ DOMContentLoaded
    \/ RescanTimer
    \/ \E i \in Imgs : LoadEvent(i)
    \/ \E i \in Imgs : ErrorEvent(i)
    \/ \E i \in Imgs : SrcChange(i)
    \/ \E i \in Imgs, c \in BOOLEAN : InsertImage(i, c)

SpecScan == InitScan /\ [][NextScan]_vars

\* performance.js.
InitPerf == PerfStart /\ ImgUnloaded

NextPerf ==
    \/ PerfDOMContentLoaded
    \/ IdleCallback
    \/ FallbackTimer
    \/ \E d \in 1..MaxLoad : WindowLoad(d)

SpecPerf == InitPerf /\ [][NextPerf]_vars

\* Timers and idle callbacks the runtime has accepted do run.
FairPerf == WF_vars(PerfDOMContentLoaded) /\ WF_vars(FallbackTimer) /\ WF_vars(IdleCallback)

LivePerf == SpecPerf /\ FairPerf

\* The script elements of a page with one marked external script at its head
\* and unmarked inline scripts after it.
PageScripts ==
    [k \in 1..MaxScripts |->
        [id |-> k,
         attrs |-> IF k = 1
                   THEN [n \in {"defer-load", "src"} |-> IF n = "src" THEN "a.js" ELSE ""]
                   ELSE [n \in {"data-x"} |-> "1"],
         text |-> IF k = 1 THEN "" ELSE "init()"]]

\* A page that includes both scripts, navigated to at instant 1: each script
\* registers its own DOMContentLoaded listener, and the callbacks of the two
\* interleave in any order.
Init ==
    /\ ImgStart(NumLiveImgs)
    /\ PerfStart
    /\ scripts = PageScripts
    /\ timing.navigationStart = 1

Next == NextImg \/ NextPerf

Spec == Init /\ [][Next]_vars

(***************************************************************************)
(* Properties                                                              *)
(***************************************************************************)

\* A step that is an invocation of handleImageLoading.
ScanStep == runs' # runs

\* The images a scan made in the current state matches.
Matched(i) == InDoc(i) /\ lazy[i]

\* C1: a scan applies the 'loading' marker to a matched image if and only if
\* the image is incomplete at scan time (an image complete at scan time,
\* and an image the scan does not match, keeps the marker state it had), and
\* after the initial scan the number of marked images equals the number of
\* matched images that were incomplete.
C1_ScanMarksExactlyIncomplete ==
    [][ScanStep =>
         /\ \A i \in Imgs :
               /\ (Matched(i) /\ ~complete[i]) => loading'[i]
               /\ ~(Matched(i) /\ ~complete[i]) => loading'[i] = loading[i]
         /\ runs = 0 =>
               Cardinality({i \in Imgs : loading'[i]})
                 = Cardinality({i \in Imgs : Matched(i) /\ ~complete[i]})]_vars

\* C1 witness: three matched images, two loaded and one not, and after the
\* initial scan exactly the one that is not loaded carries the marker.
C1_Witness ==
    /\ runs = 1
    /\ \A i \in Imgs : doc[i] = "markup" /\ lazy[i]
    /\ Cardinality({i \in Imgs : complete[i]}) = 2
    /\ Cardinality({i \in Imgs : loading[i]}) = 1
    /\ \A i \in Imgs : loading[i] <=> ~complete[i]

\* C2: a scan marks every matched incomplete image; a handleLoad that runs
\* (it detaches itself) starts one 50ms timer in an image that is complete;
\* and a pending timer leads to the marker being removed.
C2_MarkerRemovedAfterLoad ==
    /\ [][ScanStep => \A i \in Imgs : (Matched(i) /\ ~complete[i]) => loading'[i]]_vars
    /\ [][\A r \in Runs, i \in Imgs :
            listeners'[r][i] < listeners[r][i] =>
               /\ timers'[r][i] = timers[r][i] + 1
               /\ complete'[i]]_vars
    /\ \A r \in Runs, i \in 1..NumLiveImgs : (timers[r][i] > 0) ~> ~loading[i]

\* C2 witness: an image marked by a scan has intersected, its load event has
\* fired and the timer of its handler is pending, the marker still on.
C2_Witness ==
    \E r \in Runs, i \in Imgs :
       /\ timers[r][i] = 1
       /\ loading[i]
       /\ complete[i]
       /\ handled[r][i] = 1

\* C3: an image is unobserved once its intersection has been handled, so one
\* run's callback handles it at most once and attaches at most one handler.
C3_HandledAtMostOnce ==
    \A r \in Runs, i \in Imgs :
       /\ handled[r][i] <= 1
       /\ handled[r][i] = 1 => ~observed[r][i]
       /\ listeners[r][i] + timers[r][i] <= 1
       /\ handled[r][i] = 0 => listeners[r][i] + timers[r][i] = 0

\* C3 witness: an image whose intersection was handled while it was
\* incomplete: unobserved, one handler attached.
C3_Witness ==
    \E r \in Runs, i \in Imgs :
       /\ handled[r][i] = 1
       /\ ~observed[r][i]
       /\ listeners[r][i] = 1
       /\ loading[i]

\* C4: the re-scan applies the marker to every matched image that was
\* inserted after the initial scan and is incomplete at the re-scan, and
\* registers it with the second run's observer.
C4_RescanPicksUpInserted ==
    [][(imgPc = "waiting" /\ imgPc' = "done") =>
         \A i \in Imgs :
            (doc[i] = "waiting" /\ lazy[i]) =>
               /\ observed'[2][i]
               /\ ~complete[i] => loading'[i]]_vars

\* C4 witness: an image inserted between the scans carries the marker and is
\* watched by the second run's observer only.
C4_Witness ==
    \E i \in Imgs :
       /\ doc[i] = "waiting"
       /\ imgPc = "done"
       /\ loading[i]
       /\ observed[2][i]
       /\ ~observed[1][i]
       /\ handled[1][i] = 0

\* The attributes of a parsed script element without the defer-load marker.
WithoutMarker(attrs) == [n \in DOMAIN attrs \ {"defer-load"} |-> attrs[n]]

\* C5: once loadScriptsAsync has run, the element standing for a script that
\* was parsed with defer-load is a new element whose attributes are exactly
\* the original's without defer-load, and whose src property is the
\* original's when the original had a src attribute, and whose text is the
\* original's otherwise.
C5_ActivatedScriptEquivalent ==
    activations # << >> =>
       \A k \in 1..Len(scripts0) :
          "defer-load" \in DOMAIN scripts0[k].attrs =>
             /\ scripts[k].id # scripts0[k].id
             /\ scripts[k].attrs = WithoutMarker(scripts0[k].attrs)
             /\ IF "src" \in DOMAIN scripts0[k].attrs
                THEN SrcProperty(scripts[k].attrs) = SrcProperty(scripts0[k].attrs)
                ELSE scripts[k].text = scripts0[k].text

\* C5 witness: <script defer-load src="a.js" data-x="1"> has become
\* <script src="a.js" data-x="1">.
C5_Witness ==
    /\ activations # << >>
    /\ \E k \in 1..Len(scripts0) :
          /\ scripts0[k].attrs = [n \in {"defer-load", "src", "data-x"} |->
                                    CASE n = "defer-load" -> ""
                                      [] n = "src" -> "a.js"
                                      [] n = "data-x" -> "1"]
          /\ scripts[k].attrs = [n \in {"src", "data-x"} |->
                                    IF n = "src" THEN "a.js" ELSE "1"]
          /\ scripts[k].id # scripts0[k].id

\* C6: after document-ready, deferred activation is pending on or has been
\* made by the 1000ms timer when the idle-callback capability is absent, and
\* by the idle callback when it is present.
C6_ActivationAlwaysScheduled ==
    perfPc \in {"ran", "aborted"} =>
       IF hasIdle
       THEN ~timerQueued /\ (idleQueued \/ activations = <<"idle">>)
       ELSE ~idleQueued /\ (timerQueued \/ activations = <<"timer">>)

\* C7: when the runtime offers no timing information, the document-ready
\* handler logs nothing, raises no error, schedules deferred activation and
\* registers the scroll listener.
C7_NoTimingIsNoop ==
    (perfPc # "start" /\ perfApi # "timing") =>
       /\ console = << >>
       /\ perfPc = "ran"
       /\ scrollListeners = 1
       /\ idleQueued \/ timerQueued \/ activations # << >>

\* C8: handleImageLoading is invoked at document-ready and once more when
\* the 500ms timer fires, and never again: where the runtime has the
\* intersection-observation capability the first run leaves the second
\* pending and the second ends the controller; and an image inserted after
\* the second run never carries the marker and is never an observation
\* target or the holder of a load handler or timer.
C8_TwoRunsOnly ==
    /\ runs <= 2
    /\ imgPc = "done" <=> runs = 2
    /\ hasIO => /\ imgPc \in {"start", "waiting", "done"}
                /\ imgPc = "start" <=> runs = 0
                /\ imgPc = "waiting" <=> runs = 1
    /\ \A i \in Imgs :
          doc[i] = "done" =>
             /\ ~loading[i]
             /\ \A r \in Runs :
                   /\ ~observed[r][i]
                   /\ handled[r][i] = 0
                   /\ listeners[r][i] = 0
                   /\ timers[r][i] = 0

\* C8 witness: a matched, incomplete image inserted after the second run.
C8_Witness ==
    \E i \in Imgs :
       /\ doc[i] = "done"
       /\ lazy[i]
       /\ ~complete[i]
       /\ runs = 2

\* No watcher, handler or timer of the controller exists.
NothingWired ==
    \A r \in Runs, i \in Imgs :
       /\ ~observed[r][i]
       /\ handled[r][i] = 0
       /\ listeners[r][i] = 0
       /\ timers[r][i] = 0

\* C9: without the intersection-observation capability the first scan marks
\* the matched incomplete images and the controller does nothing else: no
\* further run, no watcher, no load handler, and no later change of marker.
C9_NoObserverOnlyInitialToggle ==
    /\ [](~hasIO => (runs <= 1 /\ NothingWired))
    /\ [][(~hasIO /\ runs = 0 /\ ScanStep) =>
            \A i \in Imgs : loading'[i] = (Matched(i) /\ ~complete[i])]_vars
    /\ [][(~hasIO /\ runs >= 1) => loading' = loading]_vars

\* C9 witness: the capability is absent, the first run has marked an image,
\* the image has loaded since and keeps the marker; another image inserted
\* later is not marked.
C9_Witness ==
    /\ ~hasIO
    /\ imgPc = "aborted"
    /\ \E i \in Imgs : loading[i] /\ complete[i]
    /\ \E i \in Imgs : doc[i] = "aborted" /\ lazy[i] /\ ~complete[i] /\ ~loading[i]

\* C10: the step that handles an intersection unobserves the image; if the
\* image is complete it removes the marker in that step and attaches no load
\* handler; if not it leaves the marker and attaches exactly one load
\* handler. No timer is started by that step.
C10_IntersectionStep ==
    [][\A r \in Runs, i \in Imgs :
         handled'[r][i] # handled[r][i] =>
            /\ observed[r][i] /\ ~observed'[r][i]
            /\ timers' = timers
            /\ IF complete[i]
               THEN ~loading'[i] /\ listeners' = listeners
               ELSE /\ loading' = loading
                    /\ listeners'[r][i] = listeners[r][i] + 1
                    /\ \A q \in Runs, j \in Imgs :
                          <<q, j>> # <<r, i>> => listeners'[q][j] = listeners[q][j]]_vars

\* C10 witness: one run has handled two marked images, one while incomplete
\* (marker on, one handler) and one while complete (marker off, no handler).
C10_Witness ==
    \E r \in Runs, i \in Imgs, j \in Imgs :
       /\ i # j
       /\ handled[r][i] = 1 /\ handled[r][j] = 1
       /\ ~complete[i] /\ loading[i] /\ listeners[r][i] = 1
       /\ complete[j] /\ ~loading[j] /\ listeners[r][j] = 0 /\ timers[r][j] = 0
       /\ doc[i] = "markup" /\ doc[j] = "markup"

\* Run r has nothing left to do for image i: it is not watching it, holds no
\* load handler on it and has no timer pending for it.
DrainedRun(r, i) ==
    /\ ~observed[r][i]
    /\ listeners[r][i] = 0
    /\ timers[r][i] = 0

\* C11: the re-scan leaves the marker state of every image that is complete
\* at re-scan time as it was and keeps the marker of every marked image; and
\* an image that every run made so far has drained carries no marker, after
\* the first run alone as after both.
C11_RescanIdempotent ==
    /\ [][(imgPc = "waiting" /\ imgPc' = "done") =>
            \A i \in Imgs :
               /\ complete[i] => loading'[i] = loading[i]
               /\ loading[i] => loading'[i]]_vars
    /\ [](\A i \in Imgs :
            (imgPc \in {"waiting", "done"} /\ \A r \in Runs : DrainedRun(r, i))
               => ~loading[i])

\* C11 witness: after the re-scan, one image handled and drained by both runs
\* is complete and unmarked, and another, marked by the first scan and still
\* incomplete, keeps its marker.
C11_Witness ==
    \E i \in Imgs, j \in Imgs :
       /\ imgPc = "done"
       /\ doc[i] = "markup" /\ doc[j] = "markup"
       /\ handled[1][i] = 1 /\ handled[2][i] = 1
       /\ \A r \in Runs : DrainedRun(r, i)
       /\ complete[i] /\ ~loading[i]
       /\ ~complete[j] /\ loading[j] /\ observed[2][j]

\* C12: one run holds at most one load handler or timer on an image; it
\* attaches the handler only when it handles the image's intersection, which
\* it does once; the handler runs on a load event, detaches itself in that
\* step and starts exactly one timer; and once the timer has removed the
\* marker, or the intersection step has, the run stays drained for that
\* image, so it performs no second removal.
C12_LoadHandlerOneShot ==
    /\ [](\A r \in Runs, i \in Imgs : listeners[r][i] + timers[r][i] <= 1)
    /\ [][\A r \in Runs, i \in Imgs :
            /\ listeners'[r][i] > listeners[r][i] =>
                  handled[r][i] = 0 /\ handled'[r][i] = 1
            /\ listeners'[r][i] < listeners[r][i] =>
                  /\ ~complete[i] /\ complete'[i]
                  /\ listeners'[r][i] = 0
                  /\ timers'[r][i] = timers[r][i] + 1
            /\ timers'[r][i] < timers[r][i] =>
                  ~loading'[i] /\ DrainedRun(r, i)'
            /\ (handled[r][i] = 1 /\ DrainedRun(r, i)) =>
                  (handled'[r][i] = 1 /\ DrainedRun(r, i)')]_vars

\* C12 witness: a handler has run on its image's load event and is detached,
\* its one timer is pending, and the image is loading again after a change
\* of src.
C12_Witness ==
    \E r \in Runs, i \in Imgs :
       /\ handled[r][i] = 1
       /\ listeners[r][i] = 0
       /\ timers[r][i] = 1
       /\ ~complete[i]

\* The identities of the elements of document d.
Ids(d) == {d[k].id : k \in 1..Len(d)}

\* C13: once loadScriptsAsync has run, the document holds as many script
\* elements as were parsed; at the position of every script parsed with
\* defer-load stands a new element made from it, the original being nowhere
\* in the document; every other script is the element it was, at its
\* position; no element carries defer-load; and running the replacement
\* again would leave the document as it is.
C13_ReplacedInPlace ==
    activations # << >> =>
       /\ Len(scripts) = Len(scripts0)
       /\ \A k \in 1..Len(scripts0) :
             IF "defer-load" \in DOMAIN scripts0[k].attrs
             THEN /\ scripts[k].id \notin Ids(scripts0)
                  /\ scripts0[k].id \notin Ids(scripts)
                  /\ scripts[k] = NewScript(scripts0[k], scripts[k].id)
             ELSE scripts[k] = scripts0[k]
       /\ Cardinality(Ids(scripts)) = Len(scripts)
       /\ DeferredIndexes(scripts) = {}
       /\ ForEachScript(scripts, NodeList(scripts, 1), nextId) = scripts

\* C13 witness: of two parsed scripts the first carried defer-load and has
\* been replaced at its position, the second did not and is the element it
\* was.
C13_Witness ==
    /\ activations # << >>
    /\ Len(scripts0) = 2
    /\ "defer-load" \in DOMAIN scripts0[1].attrs
    /\ "defer-load" \notin DOMAIN scripts0[2].attrs
    /\ scripts[1].id # scripts0[1].id
    /\ scripts[2] = scripts0[2]
    /\ scripts[1].text = "init()"

\* The mechanisms through which loadScriptsAsync is pending or was invoked.
Mechanisms ==
    {m \in {"idle", "timer"} :
        \/ m = "idle" /\ idleQueued
        \/ m = "timer" /\ timerQueued
        \/ \E k \in 1..Len(activations) : activations[k] = m}

\* C14: loadScriptsAsync is invoked at most once; once the document-ready
\* handler has been entered and left, it is pending on or was invoked through
\* exactly one mechanism (the idle callback or the 1000 ms timer, never both);
\* the document-ready step itself invokes it not and replaces no script; and
\* console.log is called at most once, in a step before which and after which
\* no script has been replaced.
C14_ActivationOnceOneMechanism ==
    /\ [](/\ Len(activations) <= 1
          /\ Cardinality(Mechanisms) <= 1
          /\ perfPc \in {"ran", "aborted"} => Cardinality(Mechanisms) = 1
          /\ ~(idleQueued /\ activations # << >>)
          /\ ~(timerQueued /\ activations # << >>)
          /\ Len(console) <= 1
          /\ scripts # scripts0 => activations # << >>)
    /\ [][(perfPc = "start" /\ perfPc' # "start") =>
            (activations' = << >> /\ scripts' = scripts0)]_vars
    /\ [][console' # console =>
            (activations = << >> /\ activations' = << >> /\ scripts' = scripts0)]_vars

\* C15: a logged value is loadEventEnd - navigationStart of the timing record
\* as the document-ready handler read it, and it is the page's load duration:
\* it is not negative, and once the load event has ended it equals the
\* record's loadEventEnd - navigationStart.
C15_LogIsLoadDuration ==
    /\ [][console' # console =>
            console' = Append(console, timing.loadEventEnd - timing.navigationStart)]_vars
    /\ [](\A k \in 1..Len(console) :
            /\ console[k] >= 0
            /\ timing.loadEventEnd # 0 =>
                   console[k] = timing.loadEventEnd - timing.navigationStart)

\* The part of image i's state the image controller writes.
Wiring(i) ==
    <<loading[i], [r \in Runs |-> <<observed[r][i], listeners[r][i], timers[r][i]>>]>>

\* C16: on a page with both scripts, a step that changes any state of
\* image-loading.js is a step of image-loading.js alone and leaves every
\* state of performance.js, the script elements included, as it was; it
\* changes marker, observation and load listeners of matched images only. A
\* step that changes any state of performance.js is a step of performance.js
\* alone and leaves every image as it was; among the script elements it
\* changes only those carrying defer-load.
C16_NoInterference ==
    [][/\ imgVars' # imgVars => (NextImg /\ perfVars' = perfVars)
       /\ perfVars' # perfVars => (NextPerf /\ imgVars' = imgVars)
       /\ \A i \in Imgs : ~Matched(i) => Wiring(i)' = Wiring(i)
       /\ Len(scripts') = Len(scripts)
       /\ \A k \in 1..Len(scripts) :
            "defer-load" \notin DOMAIN scripts[k].attrs => scripts'[k] = scripts[k]]_vars

\* C16 witness: both components have run to their end on the same page: the
\* marked script is replaced, the unmarked one is as parsed, and a matched
\* image, complete and handled at an intersection, carries no marker.
C16_Witness ==
    /\ activations # << >>
    /\ scripts[1] # scripts0[1]
    /\ scripts[MaxScripts] = scripts0[MaxScripts]
    /\ imgPc = "done"
    /\ \E i \in Imgs : /\ Matched(i) /\ complete[i] /\ ~loading[i]
                       /\ \E r \in Runs : handled[r][i] = 1 /\ DrainedRun(r, i)
                       /\ \A r \in Runs : timers[r][i] = 0

\* C17: every step that removes the 'loading' class from an image, at an
\* intersection or by a 50 ms timer of either run, is taken in a state where
\* the image's complete flag is true.
C17_RemovedOnlyWhenComplete ==
    [][\A i \in Imgs : (loading[i] /\ ~loading'[i]) => complete[i]]_vars

\* Nothing is outstanding for image i: no 50 ms timer is pending, no watcher
\* has i as a target it could deliver an entry for, and, when i is complete,
\* no load event is to come.
Quiescent(i) == \A r \in Runs : ~observed[r][i] /\ timers[r][i] = 0

\* C18: after both scans, a matched image that is complete, for which an
\* intersecting entry has been delivered, and for which no timer, entry or
\* load event is outstanding carries no marker.
C18_NoStuckMarker ==
    \A i \in Imgs :
        (/\ imgPc = "done"
         /\ Matched(i)
         /\ complete[i]
         /\ \E r \in Runs : handled[r][i] > 0
         /\ Quiescent(i)) => ~loading[i]

\* C19: a step that adds the 'loading' class to an image is an invocation of
\* handleImageLoading adding it to an image it matches that is incomplete;
\* and once the second invocation has been made no step adds the class to
\* any image.
C19_MarkedOnlyByScan ==
    /\ [][\A i \in Imgs :
            (~loading[i] /\ loading'[i]) => (ScanStep /\ Matched(i) /\ ~complete[i])]_vars
    /\ [][imgPc = "done" => \A i \in Imgs : loading'[i] => loading[i]]_vars

\* C19 witness: after the second scan a matched image the second watcher
\* has handled is incomplete and unmarked with nothing outstanding: no step
\* is left that would mark it.
C19_Witness ==
    \E i \in Imgs :
        /\ imgPc = "done"
        /\ Matched(i) /\ ~complete[i] /\ ~loading[i]
        /\ handled[2][i] = 1
        /\ \A r \in Runs : DrainedRun(r, i)

====
